---- MODULE Spec2Model ----
(***************************************************************************)
(* Model of the background worker (worker.js, kept as src/unnamed/part_000)*)
(* of the bot hosting platform: BotManager, WebsiteManager, the cron sweeps*)
(* and the SIGTERM drain, together with the status routes of server.js     *)
(* that write the same tables.                                             *)
(*                                                                         *)
(* Node runs one macrotask at a time, so every action below is one         *)
(* macrotask: the synchronous part of a call up to its first pending       *)
(* sqlite callback or timer, or the continuation run by one callback       *)
(* (promise continuations are microtasks of the same macrotask).           *)
(***************************************************************************)
EXTENDS Integers, Sequences, FiniteSets, TLC

\* ----------------------------------------------------------------- bounds
MaxId == 2        \* record ids 1..MaxId in each table
MaxTime == 2      \* the clock runs 0..MaxTime (seconds)
MaxEvents == 3    \* what the environment does in one run: calls of the manager
                  \* API, cron ticks, PUT requests, failing sqlite statements
MaxStamp == 10    \* the backup task runs at the instants 1..MaxStamp

\* ------------------------------------------------------ program constants
Cooldown == 2     \* restartBot's setTimeout, in seconds
Keep == 7         \* the backups the backup task keeps

Kinds == {"bot", "website"}
Ids == 1..MaxId
ApiCallers == {"api1", "api2"}
\* cron awaits no callback: a tick of the health check that fires while the
\* sweep of the tick before is still in its loop runs beside it (health2)
HealthChecks == {"health", "health2"}
Sweepers == HealthChecks \cup {"reconB", "reconW"}
Booters == {"bootB", "bootW"}      \* the two db.all callbacks of initializeWorker
Threads == ApiCallers \cup Sweepers \cup Booters

\* The active and the inactive status of each table.
ActiveStatus(k) == IF k = "bot" THEN "running" ELSE "active"
InactiveStatus(k) == IF k = "bot" THEN "stopped" ELSE "inactive"
Statuses(k) == {ActiveStatus(k), InactiveStatus(k), "error"}

VARIABLES
    registry,   \* registry[k]: the Map of kind k, its entries in insertion order
    db,         \* db[k][id]: the status column of table k
    now,        \* the clock read by new Date()
    thr,        \* thr[t]: the call frame of each asynchronous activity
    drain,      \* the SIGTERM handler's Promise.all
    exited,     \* "no", or how the process ended
    events,     \* how many things the environment has done so far
    backups     \* the backups directory: files, the database-backup-* names as
                \* readdirSync lists them; deleted, the names the last run of
                \* the backup task has unlinked (its "Deleted old backup" lines)

vars == <<registry, db, now, thr, drain, exited, events, backups>>

\* ------------------------------------------------------------- Map (JS)
MapHas(m, id) == \E i \in 1..Len(m) : m[i].id = id
MapIndex(m, id) == CHOOSE i \in 1..Len(m) : m[i].id = id
MapGet(m, id) == m[MapIndex(m, id)]
MapDelete(m, id) == SelectSeq(m, LAMBDA h : h.id # id)
\* set keeps the position of an existing key and appends a new one
MapSet(m, id, h) ==
    IF MapHas(m, id) THEN [m EXCEPT ![MapIndex(m, id)] = h] ELSE Append(m, h)
MapKeys(m) == [i \in 1..Len(m) |-> m[i].id]

runningBots == registry["bot"]
deployedWebsites == registry["website"]
getRunningBots == runningBots

\* the object startBot / deployWebsite builds (startTime is deployTime for a
\* website); the mock pid, the domain and the url are read by nothing
NewHandle(k, id, t) == [id |-> id, startTime |-> t, status |-> ActiveStatus(k)]

\* ---------------------------------------------------------- call frames
\* pc:   idle | start_write | start_errwrite | stop_write | cooldown | done
\*       | read (a sweep's db.all is pending)
\* op:   the manager method the activity called: start | stop | restart
\* ret:  what the call returned: none | true | false | deployment | exc
\* had:  whether the call found a handle for its id
\* err:  whether a store write of the call has failed
\* intr: whether another activity changed the registry entry of the call's id
\*       since the call was made
\* peers: the callers that were inside start on the same id, having inserted
\*       the handle, when this start was called
\* tmr:  when the pending timer was set
\* queue: the rows (a reconciliation) or handles (a health check) still to visit
\* catch: the health check is in its catch block
\* gaps0: (a reconciliation) the ids whose record was active and that had no
\*       handle when the cron tick fired; for it err and intr span the sweep
\*       (a health check) the ids that failed the check while they had a handle
\* gaps: those of gaps0 whose record was still active when db.all read the table
\*       (a health check) the pairs <<id, startTime>> of the handles that failed
IdleFrame ==
    [pc |-> "idle", op |-> "none", kind |-> "bot", id |-> 0, ret |-> "none",
     had |-> FALSE, err |-> FALSE, intr |-> FALSE, peers |-> {}, tmr |-> 0,
     queue |-> <<>>, catch |-> FALSE, gaps0 |-> {}, gaps |-> {}]

IdleDrain == [pc |-> "none", pending |-> {}, rets |-> <<>>]

Truthy(r) == r \in {"true", "deployment"}
InFlight(f) == f.pc \in {"start_write", "start_errwrite", "stop_write", "cooldown"}
Lookup(reg, k, id) == IF MapHas(reg[k], id) THEN <<MapGet(reg[k], id)>> ELSE <<>>


\* A world is what one macrotask of activity t reads and writes besides the
\* tables: the registries, t's own frame, and whether the process goes on.
World(t) == [reg |-> registry, f |-> thr[t], exit |-> exited]

\* ------------------------------------------------- BotManager / WebsiteManager
RECURSIVE Return(_, _, _, _)

\* (mutant) restartBot gives up when its stopBot returned false
StopReturnsGivesUp(w, r, t, pick) ==
    IF w.f.op = "restart" /\ r = "true"
    THEN [w EXCEPT !.f.pc = "cooldown", !.f.tmr = now]
    ELSE Return(w, r, t, pick)

\* stopBot / undeployWebsite has returned r inside the call of w.f.op:
\* restartBot ignores the value and sets its timer, a plain stop returns it
StopReturns(w, r, t, pick) ==
    IF w.f.op = "restart"
    THEN [w EXCEPT !.f.pc = "cooldown", !.f.tmr = now]
    ELSE Return(w, r, t, pick)

\* (mutant) stopBot deletes the handle only after its update has resolved
StopSyncKeepsHandle(w, t, pick) ==
    LET has == MapHas(w.reg[w.f.kind], w.f.id)
        w1 == [w EXCEPT !.f.had = has]
    IN  IF ~has
        THEN StopReturns(w1, "false", t, pick)
        ELSE [w1 EXCEPT !.f.pc = "stop_write"]

\* (mutant) stopBot without its "is not running" return
StopSyncNoCheck(w, t, pick) ==
    [w EXCEPT !.f.had = MapHas(w.reg[w.f.kind], w.f.id),
              !.reg[w.f.kind] = MapDelete(@, w.f.id),
              !.f.pc = "stop_write"]

\* (mutant) stopBot deletes the handle and returns false without its update
StopSyncDeletesAndFails(w, t, pick) ==
    LET k == w.f.kind
        id == w.f.id
    IN  StopReturns([w EXCEPT !.f.had = MapHas(w.reg[k], id),
                              !.reg[k] = MapDelete(@, id)],
                    "false", t, pick)

\* stopBot / undeployWebsite up to its await
StopSync(w, t, pick) ==
    LET k == w.f.kind
        id == w.f.id
        has == MapHas(w.reg[k], id)
        w1 == [w EXCEPT !.f.had = has]
    IN  IF ~has
        THEN StopReturns(w1, "false", t, pick)
        ELSE [w1 EXCEPT !.reg[k] = MapDelete(@, id), !.f.pc = "stop_write"]

\* (mutant) startBot without its "is already running" return
StartSyncNoCheck(w, t, pick) ==
    LET w1 == IF w.f.op = "start"
              THEN [w EXCEPT !.f.had = MapHas(w.reg[w.f.kind], w.f.id)] ELSE w
    IN  [w1 EXCEPT !.reg[w.f.kind] = MapSet(@, w.f.id, NewHandle(w.f.kind, w.f.id, now)),
                   !.f.pc = "start_write"]

\* startBot / deployWebsite up to its await
StartSync(w, t, pick) ==
    LET k == w.f.kind
        id == w.f.id
        has == MapHas(w.reg[k], id)
        w1 == IF w.f.op = "start" THEN [w EXCEPT !.f.had = has] ELSE w
    IN  IF has
        THEN Return(w1, "false", t, pick)
        ELSE [w1 EXCEPT !.reg[k] = MapSet(@, id, NewHandle(k, id, now)),
                        !.f.pc = "start_write"]

\* restartBot: stopBot, the timer, then startBot
RestartSync(w, t, pick) == StopSync(w, t, pick)

\* the frame of the health check's next call: the ids of the cycle that the
\* check failed while they had a handle are kept in gaps0, with the startTime of
\* that handle in gaps, and err and intr span the cycle
HealthFrame(w, op, id, queue, catch) ==
    LET live == op = "restart" /\ MapHas(w.reg["bot"], id)
    IN  [IdleFrame EXCEPT
            !.op = op, !.kind = "bot", !.id = id, !.queue = queue, !.catch = catch,
            !.err = w.f.err, !.intr = w.f.intr,
            !.gaps0 = IF live THEN w.f.gaps0 \cup {id} ELSE w.f.gaps0,
            !.gaps = IF live
                     THEN w.f.gaps \cup {<<id, MapGet(w.reg["bot"], id).startTime>>}
                     ELSE w.f.gaps]

\* (mutant) the health check stops the bot that failed it and leaves it stopped
HealthLoopStopsOnly(w, pick) ==
    IF pick = 0 \/ pick > Len(w.f.queue)
    THEN [w EXCEPT !.f = IdleFrame]
    ELSE LET f1 == HealthFrame(w, "restart", w.f.queue[pick],
                               SubSeq(w.f.queue, pick + 1, Len(w.f.queue)), FALSE)
         IN  StopSync([w EXCEPT !.f = [f1 EXCEPT !.op = "stop"]], "health", 0)

\* healthCheck's for loop from the next handle of the snapshot on: the handles
\* before position pick pass the check, the one at pick fails it and is
\* restarted; pick = 0 when every remaining handle passes
HealthLoop(w, pick) ==
    IF pick = 0 \/ pick > Len(w.f.queue)
    THEN [w EXCEPT !.f = IdleFrame]
    ELSE RestartSync(
            [w EXCEPT !.f = HealthFrame(w, "restart", w.f.queue[pick],
                                        SubSeq(w.f.queue, pick + 1, Len(w.f.queue)),
                                        FALSE)],
            "health", 0)

\* (mutant) the loop's test inverted: it starts the rows that have a handle
ReconLoopInverted(w, t) ==
    LET q == w.f.queue
        k == w.f.kind
        present == {i \in 1..Len(q) : MapHas(w.reg[k], q[i])}
    IN  IF present = {}
        THEN [w EXCEPT !.f = IdleFrame]
        ELSE LET i == CHOOSE j \in present : \A j2 \in present : j <= j2
             IN  StartSync(
                    [w EXCEPT !.f = [IdleFrame EXCEPT
                                        !.op = "start", !.kind = k, !.id = q[i],
                                        !.queue = SubSeq(q, i + 1, Len(q)),
                                        !.err = w.f.err, !.intr = w.f.intr,
                                        !.gaps0 = w.f.gaps0, !.gaps = w.f.gaps]],
                    t, 0)

\* (mutant) the sweep also drops the handles that are not among its rows
ReconLoopRevokes(w, t) ==
    LET q == w.f.queue
        k == w.f.kind
        rows == {q[i] : i \in 1..Len(q)}
        w1 == [w EXCEPT !.reg[k] = SelectSeq(@, LAMBDA h : h.id \in rows)]
        absent == {i \in 1..Len(q) : ~MapHas(w1.reg[k], q[i])}
    IN  IF absent = {}
        THEN [w1 EXCEPT !.f = IdleFrame]
        ELSE LET i == CHOOSE j \in absent : \A j2 \in absent : j <= j2
             IN  StartSync(
                    [w1 EXCEPT !.f = [IdleFrame EXCEPT
                                        !.op = "start", !.kind = k, !.id = q[i],
                                        !.queue = SubSeq(q, i + 1, Len(q)),
                                        !.err = w.f.err, !.intr = w.f.intr,
                                        !.gaps0 = w.f.gaps0, !.gaps = w.f.gaps]],
                    t, 0)

\* the for loop of a db.all callback of the deployment status check: the rows
\* whose id is in the Map are passed over, the first one that is not is started
ReconLoop(w, t) ==
    LET q == w.f.queue
        k == w.f.kind
        absent == {i \in 1..Len(q) : ~MapHas(w.reg[k], q[i])}
    IN  IF absent = {}
        THEN [w EXCEPT !.f = IdleFrame]
        ELSE LET i == CHOOSE j \in absent : \A j2 \in absent : j <= j2
             IN  StartSync(
                    [w EXCEPT !.f = [IdleFrame EXCEPT
                                        !.op = "start", !.kind = k, !.id = q[i],
                                        !.queue = SubSeq(q, i + 1, Len(q)),
                                        !.err = w.f.err, !.intr = w.f.intr,
                                        !.gaps0 = w.f.gaps0, !.gaps = w.f.gaps]],
                    t, 0)

\* (mutant) the boot pass restores the first row only
BootLoopFirstOnly(w, t) ==
    LET q == w.f.queue
    IN  IF q = <<>>
        THEN [w EXCEPT !.f = IdleFrame]
        ELSE StartSync(
                [w EXCEPT !.f = [IdleFrame EXCEPT
                                    !.op = "start", !.kind = w.f.kind, !.id = q[1],
                                    !.queue = <<>>,
                                    !.err = w.f.err, !.intr = w.f.intr,
                                    !.gaps0 = w.f.gaps0, !.gaps = w.f.gaps]],
                t, 0)

\* the for loop of a db.all callback of initializeWorker: every row is started
\* (startBot / deployWebsite itself returns false for an id that has a handle)
BootLoop(w, t) ==
    LET q == w.f.queue
    IN  IF q = <<>>
        THEN [w EXCEPT !.f = IdleFrame]
        ELSE StartSync(
                [w EXCEPT !.f = [IdleFrame EXCEPT
                                    !.op = "start", !.kind = w.f.kind, !.id = q[1],
                                    !.queue = Tail(q),
                                    !.err = w.f.err, !.intr = w.f.intr,
                                    !.gaps0 = w.f.gaps0, !.gaps = w.f.gaps]],
                t, 0)

\* (mutant) healthCheck without the try block of its loop
ReturnNoCatch(w, r, t, pick) ==
    CASE t \in ApiCallers ->
            [w EXCEPT !.f.pc = "done", !.f.ret = r]
      [] t \in HealthChecks ->
            IF r = "exc" THEN [w EXCEPT !.f = IdleFrame] ELSE HealthLoop(w, pick)
      [] t \in Booters ->
            IF r = "exc"
            THEN [w EXCEPT !.f = IdleFrame, !.exit = "unhandled"]
            ELSE BootLoop(w, t)
      [] OTHER ->
            IF r = "exc"
            THEN [w EXCEPT !.f = IdleFrame, !.exit = "unhandled"]
            ELSE ReconLoop(w, t)

\* the manager method called by activity t returns r (exc: it rejects)
Return(w, r, t, pick) ==
    CASE t \in ApiCallers ->
            [w EXCEPT !.f.pc = "done", !.f.ret = r]
      [] t \in HealthChecks ->
            IF r = "exc"
            THEN \* catch (error): await this.stopBot(bot.id)
                 StopSync([w EXCEPT !.f = HealthFrame(w, "stop", w.f.id,
                                                      w.f.queue, TRUE)],
                          t, pick)
            ELSE HealthLoop(w, pick)
      [] t \in Booters ->
            IF r = "exc"
            THEN [w EXCEPT !.f = IdleFrame, !.exit = "unhandled"]
            ELSE BootLoop(w, t)
      [] OTHER ->
            IF r = "exc"
            THEN \* nothing handles the rejection of the db.all callback
                 [w EXCEPT !.f = IdleFrame, !.exit = "unhandled"]
            ELSE ReconLoop(w, t)

\* the worker once initializeWorker has run over tables in which nothing is
\* running or active (InitBoot below is the worker at its boot)
Init ==
    /\ registry = [k \in Kinds |-> <<>>]
    /\ db = [k \in Kinds |-> [i \in Ids |-> InactiveStatus(k)]]
    /\ now = 0
    /\ thr = [t \in Threads |-> IdleFrame]
    /\ drain = IdleDrain
    /\ exited = "no"
    /\ events = 0
    /\ backups = [files |-> <<>>, deleted |-> {}]

\* ------------------------------------------------------------- actions
\* the frames of a process that has ended are gone
NoFrames == [t \in Threads |-> IdleFrame]

\* other activities learn nothing of a change of the registry; the frames only
\* record it (intr) for the statements about calls nothing interfered with
Watched(f) == IF f.gaps0 # {} THEN f.gaps0 ELSE {f.id}

MarkIntr(th, t, r0, r1) ==
    [u \in Threads |->
        IF u # t /\ th[u].pc # "idle"
           /\ \E id \in Watched(th[u]) :
                 Lookup(r0, th[u].kind, id) # Lookup(r1, th[u].kind, id)
        THEN [th[u] EXCEPT !.intr = TRUE]
        ELSE th[u]]

\* the macrotask of activity t ends in world w
Commit(t, w) ==
    /\ registry' = w.reg
    /\ thr' = IF w.exit # "no" THEN NoFrames
              ELSE MarkIntr([thr EXCEPT ![t] = w.f], t, registry, w.reg)
    /\ exited' = w.exit

Picks(t) == IF t \in HealthChecks THEN 0..Len(thr[t].queue) ELSE {0}

\* an API caller is free when it has no call in flight; api2 stands for a
\* caller that calls while api1's call is in flight (the two are alike)
Free(t) ==
    /\ thr[t].pc \in {"idle", "done"}
    /\ t = "api2" => InFlight(thr["api1"])

Call(t, op, k, id) ==
    [World(t) EXCEPT !.f = [IdleFrame EXCEPT !.op = op, !.kind = k, !.id = id]]

\* WorkerAPI.startBotAPI / deployWebsiteAPI
ApiStart(t, k, id) ==
    /\ exited = "no" /\ Free(t) /\ events < MaxEvents
    /\ LET w0 == Call(t, "start", k, id)
           ps == {u \in Threads \ {t} :
                    /\ thr[u].op = "start" /\ thr[u].kind = k /\ thr[u].id = id
                    /\ thr[u].pc \in {"start_write", "start_errwrite"}}
       IN  Commit(t, StartSync([w0 EXCEPT !.f.peers = ps], t, 0))
    /\ events' = events + 1
    /\ UNCHANGED <<backups, db, now, drain>>

\* WorkerAPI.stopBotAPI / undeployWebsiteAPI
ApiStop(t, k, id) ==
    /\ exited = "no" /\ Free(t) /\ events < MaxEvents
    /\ Commit(t, StopSync(Call(t, "stop", k, id), t, 0))
    /\ events' = events + 1
    /\ UNCHANGED <<backups, db, now, drain>>

\* BotManager.restartBot called from outside the worker's own sweeps
ApiRestart(t, id) ==
    /\ exited = "no" /\ Free(t) /\ events < MaxEvents
    /\ Commit(t, RestartSync(Call(t, "restart", "bot", id), t, 0))
    /\ events' = events + 1
    /\ UNCHANGED <<backups, db, now, drain>>

SetStatus(k, id, s) == [db EXCEPT ![k][id] = s]

\* updateBotStatus(id, 'running') / updateWebsiteStatus(id, 'active') resolves
StartWriteOk(t) ==
    /\ exited = "no" /\ thr[t].pc = "start_write"
    /\ db' = SetStatus(thr[t].kind, thr[t].id, ActiveStatus(thr[t].kind))
    /\ \E pick \in Picks(t) :
          Commit(t, Return(World(t),
                           IF thr[t].kind = "bot" THEN "true" ELSE "deployment",
                           t, pick))
    /\ UNCHANGED <<backups, now, drain, events>>

\* ... rejects: the catch block writes 'error'
StartWriteFail(t) ==
    /\ exited = "no" /\ thr[t].pc = "start_write" /\ events < MaxEvents
    /\ events' = events + 1
    /\ Commit(t, [World(t) EXCEPT !.f.pc = "start_errwrite", !.f.err = TRUE])
    /\ UNCHANGED <<backups, db, now, drain>>

\* the catch block's update to 'error' resolves: return false
ErrWriteOk(t) ==
    /\ exited = "no" /\ thr[t].pc = "start_errwrite"
    /\ db' = SetStatus(thr[t].kind, thr[t].id, "error")
    /\ \E pick \in Picks(t) : Commit(t, Return(World(t), "false", t, pick))
    /\ UNCHANGED <<backups, now, drain, events>>

\* ... rejects too: the rejection leaves startBot / deployWebsite
ErrWriteFail(t) ==
    /\ exited = "no" /\ thr[t].pc = "start_errwrite" /\ events < MaxEvents
    /\ events' = events + 1
    /\ \E pick \in Picks(t) : Commit(t, Return(World(t), "exc", t, pick))
    /\ UNCHANGED <<backups, db, now, drain>>

\* updateBotStatus(id, 'stopped') / updateWebsiteStatus(id, 'inactive') resolves
StopWriteOk(t) ==
    /\ exited = "no" /\ thr[t].pc = "stop_write"
    /\ db' = SetStatus(thr[t].kind, thr[t].id, InactiveStatus(thr[t].kind))
    /\ \E pick \in Picks(t) : Commit(t, StopReturns(World(t), "true", t, pick))
    /\ UNCHANGED <<backups, now, drain, events>>

\* ... rejects: the catch block returns false
StopWriteFail(t) ==
    /\ exited = "no" /\ thr[t].pc = "stop_write" /\ events < MaxEvents
    /\ events' = events + 1
    /\ \E pick \in Picks(t) :
          Commit(t, StopReturns([World(t) EXCEPT !.f.err = TRUE], "false", t, pick))
    /\ UNCHANGED <<backups, db, now, drain>>

\* restartBot's timer fires: startBot
CooldownExpires(t) ==
    /\ exited = "no" /\ thr[t].pc = "cooldown"
    /\ now >= thr[t].tmr + Cooldown
    /\ \E pick \in Picks(t) : Commit(t, StartSync(World(t), t, pick))
    /\ UNCHANGED <<backups, db, now, drain, events>>

\* a second passes; before any handle or timer exists no time has been read,
\* and the clock is left at its origin
Tick ==
    /\ exited = "no" /\ now < MaxTime
    /\ \/ \E k \in Kinds : registry[k] # <<>>
       \/ \E t \in Threads : thr[t].pc = "cooldown"
    /\ now' = now + 1
    /\ UNCHANGED <<backups, registry, db, thr, drain, exited, events>>

\* cron '*/5 * * * *': botManager.healthCheck()
CronHealth ==
    /\ exited = "no" /\ thr["health"].pc = "idle"
    /\ \E pick \in 0..Len(getRunningBots) :
          Commit("health",
                 HealthLoop([World("health") EXCEPT !.f.queue = MapKeys(getRunningBots)],
                            pick))
    /\ UNCHANGED <<backups, db, now, drain>>

HealthTick == events < MaxEvents /\ events' = events + 1 /\ CronHealth

\* the next tick of the same cron while that healthCheck has not returned:
\* node-cron calls the callback again
CronHealthAgain ==
    /\ exited = "no" /\ thr["health"].pc # "idle" /\ thr["health2"].pc = "idle"
    /\ \E pick \in 0..Len(getRunningBots) :
          Commit("health2",
                 HealthLoop([World("health2") EXCEPT !.f.queue = MapKeys(getRunningBots)],
                            pick))
    /\ UNCHANGED <<backups, db, now, drain>>

HealthTickAgain == events < MaxEvents /\ events' = events + 1 /\ CronHealthAgain

Gaps(k) == {i \in Ids : db[k][i] = ActiveStatus(k) /\ ~MapHas(registry[k], i)}
ReadFrame(k) == [IdleFrame EXCEPT !.pc = "read", !.kind = k, !.gaps0 = Gaps(k)]

\* cron '*/10 * * * *': the two db.all of the deployment status check
CronRecon ==
    /\ exited = "no"
    /\ thr["reconB"].pc = "idle" /\ thr["reconW"].pc = "idle"
    /\ thr' = [thr EXCEPT !["reconB"] = ReadFrame("bot"),
                          !["reconW"] = ReadFrame("website")]
    /\ UNCHANGED <<backups, registry, db, now, drain, exited>>

ReconTick == events < MaxEvents /\ events' = events + 1 /\ CronRecon

\* (mutant) the SELECT without its WHERE
SelectAll(k) == [i \in 1..MaxId |-> i]

\* SELECT * FROM bots WHERE status = "running" (websites: "active"), in id order
SelectActive(k) ==
    LET S == {i \in Ids : db[k][i] = ActiveStatus(k)}
        F[n \in 0..MaxId] ==
            IF n = 0 THEN <<>>
            ELSE IF n \in S THEN Append(F[n - 1], n) ELSE F[n - 1]
    IN  F[MaxId]

\* the db.all callback runs with the rows
ReadOk(t) ==
    /\ exited = "no" /\ thr[t].pc = "read"
    /\ Commit(t, ReconLoop([World(t) EXCEPT
                                !.f.queue = SelectActive(thr[t].kind),
                                !.f.gaps = {i \in thr[t].gaps0 :
                                              db[thr[t].kind][i] = ActiveStatus(thr[t].kind)}],
                            t))
    /\ UNCHANGED <<backups, db, now, drain, events>>

\* the db.all callback runs with err: it logs and returns
ReadFail(t) ==
    /\ exited = "no" /\ thr[t].pc = "read" /\ events < MaxEvents
    /\ events' = events + 1
    /\ Commit(t, [World(t) EXCEPT !.f = IdleFrame])
    /\ UNCHANGED <<backups, db, now, drain>>

\* process.on('SIGTERM'): stopBot for every running bot, exit when all settled
Sigterm ==
    /\ exited = "no" /\ drain.pc = "none" /\ events < MaxEvents
    /\ events' = events + 1
    /\ LET snap == {getRunningBots[i].id : i \in 1..Len(getRunningBots)}
           reg1 == [registry EXCEPT !["bot"] = <<>>]
       IN  /\ registry' = reg1
           /\ thr' = IF snap = {} THEN NoFrames
                     ELSE MarkIntr(thr, "sigterm", registry, reg1)
           /\ drain' = [pc |-> "draining", pending |-> snap, rets |-> <<>>]
           /\ exited' = IF snap = {} THEN "exit0" ELSE "no"
    /\ UNCHANGED <<backups, db, now>>

DrainSettle(id, r) ==
    /\ drain' = [drain EXCEPT !.pending = @ \ {id}, !.rets = @ @@ (id :> r)]
    /\ exited' = IF drain.pending = {id} THEN "exit0" ELSE "no"
    /\ thr' = IF drain.pending = {id} THEN NoFrames ELSE thr

\* a drained stopBot's update to 'stopped' resolves
DrainWriteOk(id) ==
    /\ exited = "no" /\ id \in drain.pending
    /\ db' = SetStatus("bot", id, "stopped")
    /\ DrainSettle(id, "true")
    /\ UNCHANGED <<backups, registry, now, events>>

\* ... rejects: that stopBot returns false
DrainWriteFail(id) ==
    /\ exited = "no" /\ id \in drain.pending /\ events < MaxEvents
    /\ events' = events + 1
    /\ DrainSettle(id, "false")
    /\ UNCHANGED <<backups, registry, db, now>>

\* process.on('SIGINT'): process.exit(0)
Sigint ==
    /\ exited = "no" /\ events < MaxEvents
    /\ events' = events + 1
    /\ exited' = "sigint"
    /\ thr' = NoFrames
    /\ UNCHANGED <<backups, registry, db, now, drain>>

\* PUT /api/bots/:id/status, PUT /api/websites/:id/status
PutStatus(k, id, s) ==
    /\ exited = "no" /\ events < MaxEvents
    /\ s \in {ActiveStatus(k), InactiveStatus(k)} /\ s # db[k][id]
    /\ db' = SetStatus(k, id, s)
    /\ events' = events + 1
    /\ UNCHANGED <<backups, registry, now, thr, drain, exited>>

Next ==
    \/ \E t \in ApiCallers, k \in Kinds, id \in Ids : ApiStart(t, k, id)
    \/ \E t \in ApiCallers, k \in Kinds, id \in Ids : ApiStop(t, k, id)
    \/ \E t \in ApiCallers, id \in Ids : ApiRestart(t, id)
    \/ \E t \in Threads : StartWriteOk(t)
    \/ \E t \in Threads : StartWriteFail(t)
    \/ \E t \in Threads : ErrWriteOk(t)
    \/ \E t \in Threads : ErrWriteFail(t)
    \/ \E t \in Threads : StopWriteOk(t)
    \/ \E t \in Threads : StopWriteFail(t)
    \/ \E t \in Threads : CooldownExpires(t)
    \/ Tick
    \/ HealthTick
    \/ HealthTickAgain
    \/ ReconTick
    \/ \E t \in {"reconB", "reconW"} : ReadOk(t)
    \/ \E t \in {"reconB", "reconW"} : ReadFail(t)
    \/ Sigterm
    \/ \E id \in Ids : DrainWriteOk(id)
    \/ \E id \in Ids : DrainWriteFail(id)
    \/ Sigint
    \/ \E k \in Kinds, id \in Ids, s \in {"running", "stopped", "active", "inactive"} :
          PutStatus(k, id, s)

Spec == Init /\ [][Next]_vars

\* ================================================================ claims
Done(t) == thr[t].pc = "done"
Handles(k, id) == {i \in 1..Len(registry[k]) : registry[k][i].id = id}
HasHandle(k, id) == MapHas(registry[k], id)
SameTarget(a, b) == thr[a].kind = thr[b].kind /\ thr[a].id = thr[b].id

\* a and b are two API calls of start on the same id, b made while a, which
\* found no handle, was in flight; both have returned and nothing else has
\* touched the id's entry
TwoStarts(a, b) ==
    /\ a # b /\ Done(a) /\ Done(b)
    /\ thr[a].op = "start" /\ thr[b].op = "start" /\ SameTarget(a, b)
    /\ a \in thr[b].peers /\ ~thr[a].had
    /\ ~thr[a].intr /\ ~thr[b].intr

AtMostOneHandle == \A k \in Kinds, id \in Ids : Cardinality(Handles(k, id)) <= 1

Inside(t, k, id) == InFlight(thr[t]) /\ thr[t].kind = k /\ thr[t].id = id

\* C2: start, stop and restart on one id are mutually exclusive: two activities
\* are never both between the first and the last step of such a call on the
\* same id.
C2_MutualExclusion ==
    \A k \in Kinds, id \in Ids :
        /\ Cardinality({t \in Threads : Inside(t, k, id)}) <= 1
        /\ (k = "bot" /\ id \in drain.pending /\ exited = "no") =>
               ~\E t \in Threads : Inside(t, k, id)

\* C3: a start that fails on its status write reports failure and leaves no
\* handle for an id that had none.
C3_FailedStartLeavesNoHandle ==
    \A t \in ApiCallers :
        (Done(t) /\ thr[t].op = "start" /\ ~thr[t].had /\ thr[t].err /\ ~thr[t].intr)
            => /\ thr[t].ret = "false"
               /\ ~HasHandle(thr[t].kind, thr[t].id)

\* C4: when a stop that found a handle returns after its status write, the
\* registry has no handle for the id and the record is stopped / inactive.
C4_StopPostcondition ==
    [][\A t \in ApiCallers :
          (thr[t].pc = "stop_write" /\ thr[t].op = "stop" /\ StopWriteOk(t))
             => /\ ~MapHas(registry'[thr[t].kind], thr[t].id)
                /\ db'[thr[t].kind][thr[t].id] = InactiveStatus(thr[t].kind)]_vars

\* C5: whatever stop returns, also when its status write fails, the handle it
\* found is out of the registry once it has returned (the entry of the id is
\* empty unless another activity has filled it since).
C5_NoDanglingHandle ==
    \A t \in ApiCallers :
        (Done(t) /\ thr[t].op = "stop" /\ thr[t].had /\ ~thr[t].intr)
            => /\ ~HasHandle(thr[t].kind, thr[t].id)
               /\ thr[t].ret = (IF thr[t].err THEN "false" ELSE "true")

C5_Witness ==
    \E t \in ApiCallers :
        /\ Done(t) /\ thr[t].op = "stop" /\ thr[t].had /\ ~thr[t].intr
        /\ thr[t].err /\ thr[t].ret = "false"
        /\ ~HasHandle(thr[t].kind, thr[t].id)

\* C6: a start on an id that has a handle returns false at once and changes
\* neither the registry (the handle keeps its startTime) nor any status.
C6_StartOnRunningIsNoOp ==
    [][\A t \in ApiCallers, k \in Kinds, id \in Ids :
          /\ (ApiStart(t, k, id) /\ MapHas(registry[k], id))
                => /\ registry' = registry /\ db' = db
                   /\ thr'[t].pc = "done" /\ thr'[t].ret = "false"
          /\ (CooldownExpires(t) /\ thr[t].kind = k /\ thr[t].id = id
              /\ MapHas(registry[k], id))
                => /\ registry' = registry /\ db' = db
                   /\ thr'[t].pc = "done" /\ thr'[t].ret = "false"]_vars

C6_Witness ==
    \E t \in ApiCallers :
        /\ Done(t) /\ thr[t].op = "start" /\ thr[t].had /\ thr[t].ret = "false"
        /\ HasHandle(thr[t].kind, thr[t].id)
        /\ db[thr[t].kind][thr[t].id] # ActiveStatus(thr[t].kind)

\* C7: a stop on an id that has no handle returns false at once and changes
\* neither the registry nor any status.
C7_StopOnStoppedIsNoOp ==
    [][\A t \in ApiCallers, k \in Kinds, id \in Ids :
          (ApiStop(t, k, id) /\ ~MapHas(registry[k], id))
             => /\ registry' = registry /\ db' = db
                /\ thr'[t].pc = "done" /\ thr'[t].ret = "false"]_vars

C7_Witness ==
    \E t \in ApiCallers :
        /\ Done(t) /\ thr[t].op = "stop" /\ ~thr[t].had /\ thr[t].ret = "false"
        /\ db[thr[t].kind][thr[t].id] = ActiveStatus(thr[t].kind)

\* C8: restart is stop, the cooldown, then start, and returns what that start
\* returns: with the store working and nothing else touching the id it returns
\* true with a handle created no sooner than Cooldown after the stop, also
\* when the stop found no handle.
C8_Restart ==
    \A t \in ApiCallers :
        (Done(t) /\ thr[t].op = "restart" /\ ~thr[t].err /\ ~thr[t].intr)
            => /\ thr[t].ret = "true"
               /\ HasHandle("bot", thr[t].id)
               /\ MapGet(runningBots, thr[t].id).startTime >= thr[t].tmr + Cooldown

C8_Witness ==
    \E t \in ApiCallers :
        /\ Done(t) /\ thr[t].op = "restart" /\ ~thr[t].had
        /\ ~thr[t].err /\ ~thr[t].intr
        /\ thr[t].ret = "true" /\ HasHandle("bot", thr[t].id)

\* ------------------------------------------------------- reconciliation
Recons == {"reconB", "reconW"}

\* the step of sweep t is the last of its cycle, and no statement of the store
\* has failed in the cycle
CycleCompletes(t) ==
    /\ thr[t].pc \in {"read", "start_write", "start_errwrite"}
    /\ thr'[t].pc = "idle" /\ exited' = "no"
    /\ ~thr[t].err /\ events' = events

StillActive(t) ==
    IF thr[t].pc = "read"
    THEN {i \in thr[t].gaps0 : db[thr[t].kind][i] = ActiveStatus(thr[t].kind)}
    ELSE thr[t].gaps

\* C10 (as stated): every id whose record was active and that had no handle
\* when a reconciliation cycle started has a handle when the cycle completes,
\* the store working.
C10_Original ==
    [][\A t \in Recons :
          CycleCompletes(t) =>
             \A id \in thr[t].gaps0 : MapHas(registry'[thr[t].kind], id)]_vars

\* C10 (amended): ... provided the record is still active when the sweep reads
\* the table and no other activity changes the id's registry entry during the
\* cycle.
C10_ReconciliationHeals ==
    [][\A t \in Recons :
          (CycleCompletes(t) /\ ~thr[t].intr) =>
             \A id \in StillActive(t) : MapHas(registry'[thr[t].kind], id)]_vars

C10_Witness ==
    \E t \in Recons :
        /\ thr[t].pc = "start_write" /\ thr[t].queue = <<>>
        /\ thr[t].gaps # {} /\ ~thr[t].intr /\ ~thr[t].err
        /\ \A id \in thr[t].gaps : HasHandle(thr[t].kind, id)

\* ---------------------------------------------- the sweeps left running
\* The website side of the worker with its cron ticks going on for ever (they
\* are not counted in events): what the environment does (deploy and undeploy
\* calls, PUT requests, failing statements) ends with MaxEvents, and the
\* process is not signalled.
TickForEver == CronHealth /\ UNCHANGED events
ReconForEver == CronRecon /\ UNCHANGED events
Settle(t) ==
    \/ StartWriteOk(t) \/ ErrWriteOk(t) \/ StopWriteOk(t)
    \/ (t \in Recons /\ ReadOk(t))

NextFair ==
    \/ \E t \in ApiCallers, id \in Ids : ApiStart(t, "website", id)
    \/ \E t \in ApiCallers, id \in Ids : ApiStop(t, "website", id)
    \/ \E t \in Threads : StartWriteFail(t)
    \/ \E t \in Threads : ErrWriteFail(t)
    \/ \E t \in Threads : StopWriteFail(t)
    \/ \E t \in Recons : ReadFail(t)
    \/ \E id \in Ids, s \in {"active", "inactive"} : PutStatus("website", id, s)
    \/ \E t \in Threads : Settle(t)
    \/ TickForEver
    \/ ReconForEver

\* node-cron fires every tick and sqlite calls every callback
FairSpec ==
    /\ Init /\ [][NextFair]_vars
    /\ WF_vars(TickForEver) /\ WF_vars(ReconForEver)
    /\ \A t \in Threads : WF_vars(Settle(t))

Consistent ==
    \A k \in Kinds, id \in Ids :
        HasHandle(k, id) => db[k][id] = ActiveStatus(k)

\* C9: once the environment has gone quiet and with the sweeps running on,
\* eventually and for ever every id with a handle has an active record.
C9_EventualConsistency == <>(exited # "no") \/ <>[]Consistent

\* ------------------------------------------------------- the health check
\* The worker with a working store and no request other than starts of bots:
\* bots are started through the API, the clock runs, and the health check
\* fires and may fail any of the handles it visits.
NextHealth ==
    \/ \E t \in ApiCallers, id \in Ids : ApiStart(t, "bot", id)
    \/ \E t \in Threads : StartWriteOk(t)
    \/ \E t \in Threads : StopWriteOk(t)
    \/ \E t \in Threads : CooldownExpires(t)
    \/ Tick
    \/ HealthTick

HealthSpec == Init /\ [][NextHealth]_vars

\* the step is the last of a health-check cycle in which a handle failed the
\* check, no write of the cycle having failed and no other activity having
\* changed the registry entry of a failed id
HealthCycleEnds ==
    /\ thr["health"].pc # "idle" /\ thr'["health"].pc = "idle" /\ exited' = "no"
    /\ ~thr["health"].err /\ ~thr["health"].intr

Drained == drain.pending \cup DOMAIN drain.rets

\* C12: when the process has exited on SIGTERM or SIGINT every registry is
\* empty, and the record of every entry that was live (the entries drained and
\* those still in a registry) is stopped / inactive.
C12_GracefulDrain ==
    exited \in {"exit0", "sigint"} =>
        /\ \A k \in Kinds : registry[k] = <<>>
        /\ \A id \in Drained : db["bot"][id] = "stopped"

\* The bot side of the worker under SIGTERM: the deployment status check goes
\* on for ever and every write of the manager calls is answered, while the
\* writes of the drain may stay unanswered.
NextDrain ==
    \/ \E t \in ApiCallers, id \in Ids : ApiStart(t, "bot", id)
    \/ \E t \in ApiCallers, id \in Ids : ApiStop(t, "bot", id)
    \/ \E t \in Threads : StartWriteFail(t)
    \/ \E t \in Threads : Settle(t)
    \/ ReconForEver
    \/ Sigterm
    \/ Sigint
    \/ \E id \in Ids : DrainWriteOk(id)
    \/ \E id \in Ids : DrainWriteFail(id)

DrainSpec ==
    /\ Init /\ [][NextDrain]_vars
    /\ WF_vars(ReconForEver)
    /\ \A t \in Threads : WF_vars(Settle(t))

\* C13: after SIGTERM the process eventually exits, also when a write of the
\* drain never calls back.
C13_ShutdownCannotHang == (drain.pc = "draining") ~> (exited # "no")

\* C14: a status request that is served leaves the registry membership of its
\* id in agreement with the status it wrote.
C14_StatusChangeCallsController ==
    [][\A k \in Kinds, id \in Ids :
          \A s \in {ActiveStatus(k), InactiveStatus(k)} :
             PutStatus(k, id, s) =>
                (MapHas(registry'[k], id) <=> s = ActiveStatus(k))]_vars

\* ------------------------------------------------------------------ boot
\* the worker at its boot: initializeWorker has issued its two db.all over
\* tables in any state (the SELECTs pass over a record in error as they do
\* over a stopped one, so the records start running / active or not)
InitBoot ==
    /\ registry = [k \in Kinds |-> <<>>]
    /\ db \in [Kinds -> [Ids -> {"running", "stopped", "active", "inactive"}]]
    /\ \A k \in Kinds, i \in Ids : db[k][i] \in {ActiveStatus(k), InactiveStatus(k)}
    /\ now = 0
    /\ thr = [t \in Threads |->
                IF t = "bootB" THEN [IdleFrame EXCEPT !.pc = "read", !.kind = "bot",
                                        !.gaps0 = {i \in Ids : db["bot"][i] = "running"}]
                ELSE IF t = "bootW"
                THEN [IdleFrame EXCEPT !.pc = "read", !.kind = "website",
                        !.gaps0 = {i \in Ids : db["website"][i] = "active"}]
                ELSE IdleFrame]
    /\ drain = IdleDrain
    /\ exited = "no"
    /\ events = 0
    /\ backups = [files |-> <<>>, deleted |-> {}]

\* a db.all callback of initializeWorker runs with the rows
BootReadOk(t) ==
    /\ exited = "no" /\ thr[t].pc = "read"
    /\ Commit(t, BootLoop([World(t) EXCEPT
                                !.f.queue = SelectActive(thr[t].kind),
                                !.f.gaps = {i \in thr[t].gaps0 :
                                              db[thr[t].kind][i] = ActiveStatus(thr[t].kind)}],
                           t))
    /\ UNCHANGED <<backups, db, now, drain, events>>

NextBoot ==
    \/ \E t \in Booters : BootReadOk(t)
    \/ \E t \in Booters : ReadFail(t)
    \/ \E t \in Threads : StartWriteOk(t)
    \/ \E t \in Threads : StartWriteFail(t)
    \/ \E t \in Threads : ErrWriteOk(t)
    \/ \E t \in Threads : ErrWriteFail(t)
    \/ \E t \in ApiCallers, k \in Kinds, id \in Ids : ApiStart(t, k, id)
    \/ \E t \in ApiCallers, k \in Kinds, id \in Ids : ApiStop(t, k, id)
    \/ \E t \in Threads : StopWriteOk(t)
    \/ \E t \in Threads : StopWriteFail(t)
    \/ \E k \in Kinds, id \in Ids, s \in {"running", "stopped", "active", "inactive"} :
          PutStatus(k, id, s)

BootSpec == InitBoot /\ [][NextBoot]_vars

NoneInError == \A k \in Kinds, id \in Ids : db[k][id] # "error"

C16_FailedStartIsRetried == <>(exited # "no") \/ <>[]NoneInError

\* C17: a call of start, stop or restart returns true or false (a deploy: its
\* deployment) and never raises, neither to an API caller nor inside a sweep
\* (where nothing would catch it).
C17_NeverRaises ==
    /\ \A t \in ApiCallers : Done(t) => thr[t].ret \in {"true", "false", "deployment"}
    /\ exited # "unhandled"

\* ------------------------------------------------------------ round trip
\* One caller alone, the store working: it calls start, stop and start again
\* on one id, each call after the one before has returned, while the clock
\* runs.  The frame keeps in gaps what the caller saw before each call: the
\* number of the call, what the call before returned, the startTime of the
\* handle of the id (-1: none) and the time.
RoundTripCall(k, id) ==
    /\ exited = "no" /\ thr["api1"].pc \in {"idle", "done"} /\ events < MaxEvents
    /\ events > 0 => (thr["api1"].kind = k /\ thr["api1"].id = id)
    /\ LET seen == <<events + 1, thr["api1"].ret,
                     IF MapHas(registry[k], id)
                     THEN MapGet(registry[k], id).startTime ELSE -1,
                     now>>
           w0 == [Call("api1", IF events = 1 THEN "stop" ELSE "start", k, id)
                     EXCEPT !.f.gaps = thr["api1"].gaps \cup {seen}]
       IN  Commit("api1", IF events = 1 THEN StopSync(w0, "api1", 0)
                                        ELSE StartSync(w0, "api1", 0))
    /\ events' = events + 1
    /\ UNCHANGED <<backups, db, now, drain>>

\* the clock of the round trip (a second may pass at any point of it)
RoundTripTick ==
    /\ now < MaxTime
    /\ now' = now + 1
    /\ UNCHANGED <<backups, registry, db, thr, drain, exited, events>>

NextRoundTrip ==
    \/ \E k \in Kinds, id \in Ids : RoundTripCall(k, id)
    \/ StartWriteOk("api1")
    \/ StopWriteOk("api1")
    \/ RoundTripTick

RoundTripSpec == Init /\ [][NextRoundTrip]_vars

\* the third call of the round trip has returned
RoundTripDone == events = 3 /\ Done("api1") /\ thr["api1"].op = "start"

\* the round trip went as it should up to the startTime of the last handle:
\* the first start returned true and made a handle at t1, the stop returned
\* true and left none, the second start, called at t3, returned true, and the
\* id has a handle with startTime t3 and a running / active record
RoundTrip(t1, t3) ==
    LET f == thr["api1"]
    IN  /\ \E t0 \in 0..MaxTime : <<1, "none", -1, t0>> \in f.gaps
        /\ \E r \in {"true", "deployment"}, t2 \in 0..MaxTime :
               <<2, r, t1, t2>> \in f.gaps
        /\ <<3, "true", -1, t3>> \in f.gaps
        /\ Truthy(f.ret)
        /\ HasHandle(f.kind, f.id)
        /\ MapGet(registry[f.kind], f.id).startTime = t3
        /\ db[f.kind][f.id] = ActiveStatus(f.kind)

\* C18 (as stated): start; stop; start each succeed and leave a running /
\* active id whose handle has the startTime of the second start, strictly
\* later than the startTime of the first handle.
C18_Original ==
    RoundTripDone => \E t1, t3 \in 0..MaxTime : RoundTrip(t1, t3) /\ t3 > t1

\* C18 (amended): ... the startTime of the second start, which is not earlier
\* than that of the first handle (and later once the clock has advanced).
C18_RoundTrip ==
    RoundTripDone => \E t1, t3 \in 0..MaxTime : RoundTrip(t1, t3) /\ t3 >= t1

C18_Witness ==
    RoundTripDone /\ \E t1, t3 \in 0..MaxTime : RoundTrip(t1, t3) /\ t3 > t1

\* ----------------------------------------------------------- backup task
\* The name of the backup made at instant d: toISOString pads every field
\* with zeros, which two digits stand for here; a name is its digits.
IsoName(d) == <<d \div 10, d % 10>>
StampOf(name) == name[1] * 10 + name[2]

\* (mutant) the order against that of the code units
LexGreater(a, b) ==
    \/ \E i \in 1..Len(a) :
          /\ i <= Len(b) /\ a[i] > b[i]
          /\ \A j \in 1..(i - 1) : a[j] = b[j]
    \/ Len(a) > Len(b) /\ \A j \in 1..Len(b) : a[j] = b[j]

\* the order of Array.prototype.sort() without a comparator: by code units
LexLess(a, b) ==
    \/ \E i \in 1..Len(a) :
          /\ i <= Len(b) /\ a[i] < b[i]
          /\ \A j \in 1..(i - 1) : a[j] = b[j]
    \/ Len(a) < Len(b) /\ \A j \in 1..Len(a) : a[j] = b[j]

\* (mutant) the listing is left in the order readdirSync gave
JsSortNone(files) == files

\* backupFiles.sort()
JsSort(files) == SortSeq(files, LexLess)

\* the listings of a directory holding the backups of the instants in S that
\* the runs start from: the names in the order of the instants or against it,
\* begun at any file
Ascending(S) ==
    LET F[n \in 0..MaxStamp] ==
            IF n = 0 THEN <<>>
            ELSE IF n \in S THEN Append(F[n - 1], IsoName(n)) ELSE F[n - 1]
    IN  F[MaxStamp]
Reverse(q) == [i \in 1..Len(q) |-> q[Len(q) + 1 - i]]
Rotate(q, r) == SubSeq(q, r + 1, Len(q)) \o SubSeq(q, 1, r)
Listings(S) ==
    IF S = {} THEN {<<>>}
    ELSE {Rotate(q, r) : q \in {Ascending(S), Reverse(Ascending(S))},
                         r \in 0..(Cardinality(S) - 1)}

\* the worker with a backups directory left by earlier runs (or filled by
\* hand: the task keeps no more than Keep files itself)
InitBackup ==
    /\ registry = [k \in Kinds |-> <<>>]
    /\ db = [k \in Kinds |-> [i \in Ids |-> InactiveStatus(k)]]
    /\ now = 0
    /\ thr = [t \in Threads |-> IdleFrame]
    /\ drain = IdleDrain
    /\ exited = "no"
    /\ events = 0
    /\ \E S \in SUBSET (1..(MaxStamp - 1)) :
          \E q \in Listings(S) : backups = [files |-> q, deleted |-> {}]

\* cron '0 4 * * *' at instant d, later than every backup there is: copy the
\* database, list the directory, and unlink all but the Keep last names
BackupRun(d) ==
    /\ exited = "no"
    /\ \A i \in 1..Len(backups.files) : StampOf(backups.files[i]) < d
    /\ LET backupFiles == Append(backups.files, IsoName(d))
           sorted == JsSort(backupFiles)
           filesToDelete ==
               IF Len(backupFiles) > Keep
               THEN {sorted[i] : i \in 1..(Len(backupFiles) - Keep)}
               ELSE {}
       IN  backups' = [files |-> SelectSeq(backupFiles,
                                           LAMBDA f : f \notin filesToDelete),
                       deleted |-> filesToDelete]
    /\ UNCHANGED <<registry, db, now, thr, drain, exited, events>>

NextBackup == \E d \in 1..MaxStamp : BackupRun(d)

BackupSpec == InitBackup /\ [][NextBackup]_vars

Stamps(files) == {StampOf(files[i]) : i \in 1..Len(files)}
Oldest(S, m) == {x \in S : Cardinality({y \in S : y < x}) < m}

\* C19 (as stated): a run of the backup task over n > Keep backups leaves
\* exactly Keep files and deletes exactly the n - Keep oldest of the n, by the
\* instant in the name.
C19_Original ==
    [][\A d \in 1..MaxStamp :
          (BackupRun(d) /\ Len(backups.files) > Keep) =>
             /\ Len(backups'.files) = Keep
             /\ Stamps(backups.files) \ Stamps(backups'.files)
                   = Oldest(Stamps(backups.files), Len(backups.files) - Keep)]_vars

\* C19 (amended): ... leaves exactly Keep files, the new backup among them,
\* and deletes exactly the n + 1 - Keep oldest of the n, by the instant in the
\* name and whatever the order of the listing.
C19_BackupRetention ==
    [][\A d \in 1..MaxStamp :
          (BackupRun(d) /\ Len(backups.files) > Keep) =>
             /\ Len(backups'.files) = Keep
             /\ d \in Stamps(backups'.files)
             /\ Stamps(backups.files) \ Stamps(backups'.files)
                   = Oldest(Stamps(backups.files), Len(backups.files) + 1 - Keep)
             /\ backups'.deleted
                   = {IsoName(x) : x \in Oldest(Stamps(backups.files),
                                                Len(backups.files) + 1 - Keep)}]_vars

\* a run over nine backups has deleted the three oldest of them
C19_Witness ==
    /\ Len(backups.files) = Keep
    /\ Cardinality(backups.deleted) = 3
    /\ \A x \in backups.deleted, i \in 1..Keep :
          StampOf(x) < StampOf(backups.files[i])
    /\ \E i \in 1..(Keep - 1) :
          StampOf(backups.files[i]) > StampOf(backups.files[i + 1])

\* ------------------------------------------------- the sweep and its rows
\* The worker with records that status requests have set running / active
\* since its boot, none of them with a handle yet: the deployment status
\* check, the status routes and the manager API.
InitSweep ==
    /\ registry = [k \in Kinds |-> <<>>]
    /\ db \in [Kinds -> [Ids -> {"running", "stopped", "active", "inactive"}]]
    /\ \A k \in Kinds, i \in Ids : db[k][i] \in {ActiveStatus(k), InactiveStatus(k)}
    /\ now = 0
    /\ thr = [t \in Threads |-> IdleFrame]
    /\ drain = IdleDrain
    /\ exited = "no"
    /\ events = 0
    /\ backups = [files |-> <<>>, deleted |-> {}]

NextSweep ==
    \/ ReconTick
    \/ \E t \in Recons : ReadOk(t)
    \/ \E t \in Recons : ReadFail(t)
    \/ \E t \in Threads : StartWriteOk(t)
    \/ \E t \in Threads : StartWriteFail(t)
    \/ \E t \in Threads : ErrWriteOk(t)
    \/ \E t \in Threads : ErrWriteFail(t)
    \/ \E t \in ApiCallers, k \in Kinds, id \in Ids : ApiStart(t, k, id)
    \/ \E k \in Kinds, id \in Ids, s \in {"running", "stopped", "active", "inactive"} :
          PutStatus(k, id, s)

SweepSpec == InitSweep /\ [][NextSweep]_vars

\* in this step sweep t calls start for an id that has no handle
SweepStarts(t) ==
    /\ thr'[t].pc = "start_write"
    /\ thr[t].pc # "start_write" \/ thr[t].id # thr'[t].id

\* C20: every start a deployment status check issues is for an id that, at the
\* call, has no handle and whose record is running / active: a record set to
\* stopped / inactive after the sweep read the table is not started.
C20_SweepActsOnFreshState ==
    [][\A t \in Recons :
          SweepStarts(t) =>
             /\ ~MapHas(registry[thr'[t].kind], thr'[t].id)
             /\ db[thr'[t].kind][thr'[t].id] = ActiveStatus(thr'[t].kind)]_vars

\* the rows sweep t has still to visit whose id has no handle
RowsToStart(t) ==
    {thr[t].queue[i] : i \in {j \in 1..Len(thr[t].queue) :
                                ~MapHas(registry[thr[t].kind], thr[t].queue[j])}}

\* C21: when a start called by a deployment status check has failed, whether
\* its update to 'error' resolves or rejects too, the process goes on and the
\* sweep starts the next of its rows that has no handle.
C21_SweepToleratesFailure ==
    [][\A t \in Recons :
          (ErrWriteOk(t) \/ ErrWriteFail(t)) =>
             /\ exited' = "no"
             /\ RowsToStart(t) # {} =>
                   /\ thr'[t].pc = "start_write"
                   /\ thr'[t].id \in RowsToStart(t)]_vars

\* ------------------------------------------- the health check under faults
\* the handles of the bots in S as the starts of boot left them
RunningFrom(S) ==
    LET F[n \in 0..MaxId] ==
            IF n = 0 THEN <<>>
            ELSE IF n \in S THEN Append(F[n - 1], NewHandle("bot", n, 0)) ELSE F[n - 1]
    IN  F[MaxId]

\* the worker with some of its bots running, no call in flight
InitRunning ==
    /\ \E S \in SUBSET Ids :
          /\ registry = [k \in Kinds |-> IF k = "bot" THEN RunningFrom(S) ELSE <<>>]
          /\ db = [k \in Kinds |->
                     [i \in Ids |-> IF k = "bot" /\ i \in S
                                    THEN "running" ELSE InactiveStatus(k)]]
    /\ now = 0
    /\ thr = [t \in Threads |-> IdleFrame]
    /\ drain = IdleDrain
    /\ exited = "no"
    /\ events = 0
    /\ backups = [files |-> <<>>, deleted |-> {}]

\* The health check over running bots with a store that may fail, and stops
\* of bots through the API: nothing starts a bot but the health check.
NextHealthSweep ==
    \/ HealthTick
    \/ HealthTickAgain
    \/ \E t \in ApiCallers, id \in Ids : ApiStop(t, "bot", id)
    \/ \E t \in Threads : StopWriteOk(t)
    \/ \E t \in Threads : StopWriteFail(t)
    \/ \E t \in Threads : CooldownExpires(t)
    \/ Tick
    \/ \E t \in Threads : StartWriteOk(t)
    \/ \E t \in Threads : StartWriteFail(t)
    \/ \E t \in Threads : ErrWriteOk(t)
    \/ \E t \in Threads : ErrWriteFail(t)

HealthSweepSpec == InitRunning /\ [][NextHealthSweep]_vars

\* after the step health check t is in its loop again: it has returned, every
\* handle left having passed, or it restarts one of the handles left and keeps
\* those behind it
SweepGoesOn(t) ==
    /\ exited' = "no"
    /\ \/ thr'[t].pc = "idle"
       \/ \E i \in 1..Len(thr[t].queue) :
             /\ thr'[t].op = "restart" /\ thr'[t].id = thr[t].queue[i]
             /\ thr'[t].queue = SubSeq(thr[t].queue, i + 1, Len(thr[t].queue))

\* C22: a restart that raises does not end the health check: the catch block
\* stops that bot with the handles left to visit unchanged, and when that stop
\* has returned, whatever it returns, the loop goes on over them.
C22_HealthSweepGoesOn ==
    [][\A t \in HealthChecks :
          /\ ErrWriteFail(t) =>
                IF MapHas(runningBots, thr[t].id)
                THEN /\ exited' = "no"
                     /\ thr'[t].pc = "stop_write" /\ thr'[t].catch
                     /\ thr'[t].id = thr[t].id /\ thr'[t].queue = thr[t].queue
                ELSE SweepGoesOn(t)
          /\ (thr[t].catch /\ (StopWriteOk(t) \/ StopWriteFail(t))) =>
                SweepGoesOn(t)]_vars

\* a restart of the sweep has raised with a handle of the snapshot still to
\* visit, and the catch block is stopping the bot
C22_Witness ==
    \E t \in HealthChecks :
        /\ thr[t].pc = "stop_write" /\ thr[t].catch /\ thr[t].err
        /\ thr[t].queue # <<>>

\* C23: two sweeps of the health check are never in progress together.
C23_TicksNeverOverlap ==
    ~(thr["health"].pc # "idle" /\ thr["health2"].pc # "idle")

\* caller t's stop has removed the handle of its id and has returned true
Stopped(t) ==
    /\ Done(t) /\ thr[t].op = "stop" /\ thr[t].had /\ thr[t].ret = "true"

\* C27: once a stop through the API has removed the handle of a bot, nothing
\* but the health check starting bots, no step creates a handle for the bot
\* or sets its record back to running.
C27_StopNotUndone ==
    [][\A t \in ApiCallers :
          Stopped(t) =>
             /\ ~MapHas(runningBots, thr[t].id) =>
                   ~MapHas(registry'["bot"], thr[t].id)
             /\ db'["bot"][thr[t].id] = "running" =>
                   db["bot"][thr[t].id] = "running"]_vars

\* ------------------------------------------------ the sweep never revokes
\* the step is one of the deployment status check: its tick, or a callback of
\* sweep t
ReconStep(t) ==
    \/ ReconTick
    \/ ReadOk(t) \/ ReadFail(t)
    \/ StartWriteOk(t) \/ StartWriteFail(t)
    \/ ErrWriteOk(t) \/ ErrWriteFail(t)

\* C24: no step of a deployment status check removes or replaces a handle, or
\* writes stopped / inactive: every handle, also one whose record is not
\* active any more, is there after the step with the startTime it had.
C24_OnlyHeals ==
    [][\A t \in Recons :
          ReconStep(t) =>
             \A k \in Kinds, id \in Ids :
                /\ MapHas(registry[k], id) =>
                      /\ MapHas(registry'[k], id)
                      /\ MapGet(registry'[k], id) = MapGet(registry[k], id)
                /\ db'[k][id] # db[k][id] => db'[k][id] # InactiveStatus(k)]_vars

\* a sweep is reading the table of an id that a caller has started and whose
\* record has been set to stopped / inactive since, its handle still there
C24_Witness ==
    \E t \in Recons, u \in ApiCallers :
        /\ thr[t].pc = "read" /\ thr[u].kind = thr[t].kind
        /\ Done(u) /\ thr[u].op = "start" /\ Truthy(thr[u].ret)
        /\ HasHandle(thr[u].kind, thr[u].id)
        /\ db[thr[u].kind][thr[u].id] = InactiveStatus(thr[u].kind)

\* ------------------------------------------------- the drain's snapshot
\* C25: the SIGTERM handler invokes stop on every entry the registries hold
\* when the signal arrives (stop takes the handle out at once), and the
\* process exits only when every stop of the drain has returned.
C25_DrainAttemptsAll ==
    [][/\ Sigterm =>
             \A k \in Kinds, id \in Ids :
                MapHas(registry[k], id) => ~MapHas(registry'[k], id)
       /\ (exited = "no" /\ exited' = "exit0") => drain'.pending = {}]_vars

\* ------------------------------------------------- what a backup run leaves
Names(files) == {files[i] : i \in 1..Len(files)}

Agrees(t) ==
    (thr[t].pc = "start_write") <=> MapHas(registry[thr[t].kind], thr[t].id)

InOrder(t) ==
    \A u \in Threads \ {t} :
        (thr[u].pc \in {"start_write", "stop_write"} /\ SameTarget(t, u)) =>
            ~Agrees(t)

\* Calls of start, stop and restart through the API in any interleaving, every
\* write resolving, in the order issued.
NextOrdered ==
    \/ \E t \in ApiCallers, k \in Kinds, id \in Ids : ApiStart(t, k, id)
    \/ \E t \in ApiCallers, k \in Kinds, id \in Ids : ApiStop(t, k, id)
    \/ \E t \in ApiCallers, id \in Ids : ApiRestart(t, id)
    \/ \E t \in Threads : InOrder(t) /\ StartWriteOk(t)
    \/ \E t \in Threads : InOrder(t) /\ StopWriteOk(t)
    \/ \E t \in Threads : CooldownExpires(t)
    \/ Tick

OrderedSpec == Init /\ [][NextOrdered]_vars

\* C28: whenever no call on an id is in flight, the id has a handle exactly
\* if its record is running / active.
C28_QuiescentAgreement ==
    \A k \in Kinds, id \in Ids :
        (\A t \in Threads : ~Inside(t, k, id)) =>
            (HasHandle(k, id) <=> db[k][id] = ActiveStatus(k))

\* a stop and a start of one id that overlapped have both returned, having
\* removed a handle and inserted one
C28_Witness ==
    \E a \in ApiCallers, b \in ApiCallers :
        /\ Done(a) /\ Done(b) /\ SameTarget(a, b)
        /\ thr[a].op = "stop" /\ thr[a].ret = "true"
        /\ thr[b].op = "start" /\ Truthy(thr[b].ret)
        /\ HasHandle(thr[a].kind, thr[a].id)
        /\ db[thr[a].kind][thr[a].id] = ActiveStatus(thr[a].kind)

\* ------------------------------------------------ what stop's false means
\* C29 (as stated): a stop that has returned false has removed no handle.
C29_Original ==
    \A t \in ApiCallers :
        (Done(t) /\ thr[t].op = "stop" /\ thr[t].ret = "false") => ~thr[t].had

\* C29 (amended): a stop that has returned false has removed no handle,
\* unless its store write has failed: then it has removed the handle it found.
C29_FalseStop ==
    \A t \in ApiCallers :
        (Done(t) /\ thr[t].op = "stop" /\ thr[t].ret = "false") =>
            /\ ~thr[t].err => ~thr[t].had
            /\ thr[t].err => thr[t].had

\* a stop of an id without a handle has returned false, no write having
\* failed, beside the handle of another id
C29_Witness ==
    \E t \in ApiCallers :
        /\ Done(t) /\ thr[t].op = "stop" /\ thr[t].ret = "false"
        /\ ~thr[t].had /\ ~thr[t].err
        /\ registry[thr[t].kind] # <<>>

\* ------------------------------------- the process after a SIGTERM drain
\* The worker is started again after a drain has ended it: the Maps of the new
\* process are empty, initializeWorker has issued its two db.all, and the
\* tables are as the process before left them. drain keeps what the drain of
\* that process did.
Reboot ==
    /\ exited = "exit0" /\ drain.pc = "draining"
    /\ registry' = [k \in Kinds |-> <<>>]
    /\ thr' = [t \in Threads |->
                 IF t = "bootB"
                 THEN [IdleFrame EXCEPT !.pc = "read", !.kind = "bot", !.gaps0 = Ids]
                 ELSE IF t = "bootW"
                 THEN [IdleFrame EXCEPT !.pc = "read", !.kind = "website",
                                        !.gaps0 = Ids]
                 ELSE IdleFrame]
    /\ drain' = [drain EXCEPT !.pc = "rebooted"]
    /\ exited' = "no"
    /\ UNCHANGED <<backups, db, now, events>>

\* Bots are started through the API, the process is sent SIGTERM and started
\* again; status requests are served all along.
NextRestart ==
    \/ \E t \in ApiCallers, id \in Ids : drain.pc = "none" /\ ApiStart(t, "bot", id)
    \/ \E t \in Threads : StartWriteOk(t)
    \/ Sigterm
    \/ \E id \in Ids : DrainWriteOk(id)
    \/ \E id \in Ids : DrainWriteFail(id)
    \/ \E id \in Ids, s \in {"running", "stopped"} : PutStatus("bot", id, s)
    \/ Reboot
    \/ \E t \in Booters : BootReadOk(t)

RestartSpec == Init /\ [][NextRestart]_vars

\* the bots of the drain's snapshot whose stopBot returned true
DrainedOk == {id \in DOMAIN drain.rets : drain.rets[id] = "true"}

\* the step ends the pass of initializeWorker over the bots in the process
\* started after the drain
BootPassEnds ==
    /\ drain.pc = "rebooted"
    /\ thr["bootB"].pc # "idle" /\ thr'["bootB"].pc = "idle" /\ exited' = "no"

\* C30 (as stated): when the boot pass of the next process has ended, no bot
\* that the drain stopped with success has a handle.
C30_Original ==
    [][BootPassEnds =>
          \A id \in DrainedOk : ~MapHas(registry'["bot"], id)]_vars

\* C30 (amended): the stop of a drained bot that succeeds leaves its record
\* stopped; and when the boot pass of the next process has ended, no bot that
\* the drain stopped with success has a handle, unless its record was running
\* again when the pass read the table.
C30_DrainErasesDesiredState ==
    [][/\ \A id \in Ids : DrainWriteOk(id) => db'["bot"][id] = "stopped"
       /\ BootPassEnds =>
             \A id \in DrainedOk \ StillActive("bootB") :
                ~MapHas(registry'["bot"], id)]_vars

\* the boot pass of the next process has ended and the bots the drain stopped
\* are stopped in the table and have no handle
C30_Witness ==
    /\ drain.pc = "rebooted" /\ exited = "no"
    /\ thr["bootB"].pc = "idle"
    /\ DrainedOk # {}
    /\ \A id \in DrainedOk : ~HasHandle("bot", id) /\ db["bot"][id] = "stopped"
====
